---- MODULE Spec2Model ----
(***************************************************************************)
(* Workflow graph engine (app/graph_engine): the graph model, the run      *)
(* state, the tool registry and WorkflowEngine.create_graph /              *)
(* run_workflow / get_run_state.                                           *)
(* run_workflow is modelled one loop iteration per step, followed by the   *)
(* two finalisation statements and the return.  State mappings hold        *)
(* integers and references to list objects; the objects live in heap.      *)
(* Spec drives the engine, SpecRegistry the registry on its own.           *)
(***************************************************************************)
EXTENDS Integers, Sequences, FiniteSets, TLC

(* ---------------------------------------------------------------- bounds *)
\* largest value of WorkflowEngine.max_iterations explored
MaxIterCap == 4
\* largest value of WorkflowEngine.max_loop_iterations explored
MaxLoopCap == 1

(* ------------------------------------------------------------ vocabulary *)
\* Python's None (Optional[str] values)
None == "<None>"
\* node names; the empty string is a legal dictionary key
Names == {"", "a", "check_complexity"}
\* nodes that a caller may declare with a type other than "function"
PassNames == {"a"}
\* capability names that are registered or unregistered during a behaviour
RegNames == {"a"}
\* the objects callers pass to register: two functions of the state, a function without
\* parameters, an object that is not callable
Capabilities == {"f1", "f2", "f0", "obj"}
\* the description arguments of register
Descriptions == {None, "d1"}
\* callable(func)
callable(func) == func # "obj"
\* list(inspect.signature(func).parameters.keys())
Parameters(func) == IF func \in {"f1", "f2"} THEN <<"state">> ELSE << >>
\* the capability and the description the imports register check_complexity with
ImportedCapability == "f1"
ImportedDescription == "Check code complexity metrics"
\* the literal loop-back target of run_workflow
LoopBackNode == "check_complexity"
\* default of state.get("threshold", 80)
DefaultThreshold == 80
\* default of state.get("quality_score", 0)
DefaultQualityScore == 0
\* truncated uuid values uuid4().hex[:8] can take
RunIds == {"run_1"}
\* uuid4 values create_graph can draw
GraphIds == {"g1"}
\* graph_id arguments of run_workflow: the ids create_graph draws and one it never returns
RequestGraphIds == GraphIds \cup {"g0"}

\* the empty mapping {}
EmptyMap == << >>
\* initial_state arguments
InitStates == {EmptyMap, [quality_score |-> 0], [quality_score |-> 90, threshold |-> 100],
               [items |-> "list_1"]}
\* the key a capability of kind "pops_in_place" removes from the mapping it is passed
PoppedKey == "quality_score"
\* the key under which a caller passes a list object, and the list objects callers create
NestedKey == "items"
ObjectIds == {"list_1"}
\* mappings a capability may return
Updates == {EmptyMap, [quality_score |-> 0], [quality_score |-> 90]}
\* what one invocation of a registered capability does
CapOutcomes == {[kind |-> "mapping", value |-> u] : u \in Updates}
                 \cup {[kind |-> "appends_in_place", value |-> EmptyMap],
                       [kind |-> "pops_in_place", value |-> EmptyMap],
                       [kind |-> "scalar", value |-> EmptyMap],
                       [kind |-> "empty_iterable", value |-> EmptyMap],
                       [kind |-> "raises", value |-> EmptyMap]}
\* what one call of the loop_condition callable does
PredOutcomes == {"true", "false", "raises"}
\* what one call of the given loop_condition does; an absent one is never called
PredOutcomesOf(loop_condition) == IF loop_condition = None THEN {None} ELSE PredOutcomes
\* the same for the first call of an iteration, whose result only selects between two
\* empty branches: all that matters is whether the call raises
DiscardedPredOutcomesOf(loop_condition) ==
  IF loop_condition = None THEN {None} ELSE {"false", "raises"}
\* loop_condition arguments: absent, or some callable
LoopConditions == {None, "callable"}

\* Python truthiness of an Optional[str]
Truthy(x) == x # None /\ x # ""

\* dict.update(updates) for a mapping
Merge(s, u) == [k \in (DOMAIN s) \cup (DOMAIN u) |-> IF k \in DOMAIN u THEN u[k] ELSE s[k]]

\* dict.pop(key, None) on the mapping itself
Pop(s, k) == [x \in (DOMAIN s) \ {k} |-> s[x]]

\* dict.get(key, default)
Get(s, k, d) == IF k \in DOMAIN s THEN s[k] ELSE d

(* ------------------------------------------------------------ graph model *)
\* Node.__init__ as called by create_graph
Node(n, t) == [name |-> n, function |-> n, node_type |-> t]

\* Graph.__init__
Graph(gid, nodes, edges, entry) == [graph_id |-> gid, nodes |-> nodes, edges |-> edges, entry_node |-> entry]

\* guard predicates an Edge may be constructed with (Edge.condition), besides None
Guards == {"has_quality_score", "never"}

\* self.condition(state) for a guard of Guards
CallGuard(condition, state) ==
  IF condition = "has_quality_score" THEN "quality_score" \in DOMAIN state ELSE FALSE

\* fault variant of should_traverse: an edge without guard is not traversed
should_traverse_Never(condition, state) ==
  IF condition = None THEN FALSE ELSE CallGuard(condition, state)

\* Edge.should_traverse
should_traverse(condition, state) ==
  IF condition = None THEN TRUE ELSE CallGuard(condition, state)

\* fault variant of get_next_node: a node without a declared edge is its own successor
get_next_node_SelfLoop(g, current, state) ==
  IF current \notin DOMAIN g.edges THEN current ELSE g.edges[current]

\* Graph.get_next_node: the Edge is built as Edge(current_node, next_node_name), condition None
get_next_node(g, current, state) ==
  IF current \notin DOMAIN g.edges THEN None
  ELSE IF should_traverse(None, state) THEN g.edges[current] ELSE None

\* fault variant of validate: edge targets are not checked
validate_NoToCheck(g) ==
  IF ~Truthy(g.entry_node) THEN "Entry node is required"
  ELSE IF g.entry_node \notin DOMAIN g.nodes THEN "Entry node not found in nodes"
  ELSE IF \E f \in DOMAIN g.edges : f \notin DOMAIN g.nodes
       THEN "Edge references non-existent node"
  ELSE "ok"

\* Graph.validate: "ok" or the error message
validate(g) ==
  IF ~Truthy(g.entry_node) THEN "Entry node is required"
  ELSE IF g.entry_node \notin DOMAIN g.nodes THEN "Entry node not found in nodes"
  ELSE IF \E f \in DOMAIN g.edges : f \notin DOMAIN g.nodes \/ g.edges[f] \notin DOMAIN g.nodes
       THEN "Edge references non-existent node"
  ELSE "ok"

\* the structural invariants of the data model: entry and edge endpoints are nodes
WellFormed(g) ==
  /\ g.entry_node \in DOMAIN g.nodes
  /\ \A f \in DOMAIN g.edges : f \in DOMAIN g.nodes /\ g.edges[f] \in DOMAIN g.nodes

\* the threads that call the registry
Threads == {"t1", "t2"}
\* a thread that is in no registry call
IdleThread == [op |-> None, name |-> None, pc |-> "idle", raised |-> None]

(* ------------------------------------------------------------------ state *)
VARIABLES
  graphs,               \* WorkflowEngine.graphs: graph id -> Graph
  runs,                 \* WorkflowEngine.runs: run id -> WorkflowState object (index into calls)
  max_iterations,       \* WorkflowEngine.max_iterations
  max_loop_iterations,  \* WorkflowEngine.max_loop_iterations
  tools,                \* ToolRegistry._tools: name -> capability
  tool_descriptions,    \* ToolRegistry._tool_descriptions: name -> description
  calls,                \* run_workflow activations: locals and the WorkflowState each created
  outcome,              \* what the last engine-level call returned or raised
  heap,                 \* the mutable objects that state mappings hold as values: id -> content
  threads               \* the threads calling the registry: operation, argument, position

vars == <<graphs, runs, max_iterations, max_loop_iterations, tools, tool_descriptions, calls, outcome,
          heap, threads>>


(* -------------------------------------------------------------- run state *)
\* the messages run_workflow writes into the log
SuccessMsg(n) == [kind |-> "executed successfully", node |-> n, text |-> ""]
ErrorMsg(n, e) == [kind |-> "Error in node", node |-> n, text |-> e]
LoopLimitMsg == [kind |-> "Loop iteration limit reached", node |-> None, text |-> ""]
MaxIterMsg == [kind |-> "Maximum iterations reached", node |-> None, text |-> ""]
WorkflowFailedMsg(e) == [kind |-> "Workflow execution failed", node |-> None, text |-> e]

\* ExecutionLogEntry
ExecutionLogEntry(n, snapshot, m) == [node |-> n, state_snapshot |-> snapshot, message |-> m]

\* WorkflowState.add_log_entry
add_log_entry(ws, n, snapshot, m) ==
  [ws EXCEPT !.execution_log = Append(@, ExecutionLogEntry(n, snapshot, m))]

\* WorkflowState.update_state
update_state(ws, updates) == [ws EXCEPT !.state = Merge(@, updates)]

\* WorkflowState.set_status
set_status(ws, status) == [ws EXCEPT !.status = status]

\* WorkflowState(...) as constructed by run_workflow
WorkflowState(initial_state, rid, gid) ==
  [state |-> initial_state, execution_log |-> << >>, current_node |-> None,
   status |-> "running", run_id |-> rid, graph_id |-> gid]

\* x or "unknown"
OrUnknown(x) == IF Truthy(x) THEN x ELSE "unknown"

(* ------------------------------------------------------------ run_workflow *)
\* fault variant of NodeExecute: a node of any kind is resolved against the registry
NodeExecute_AlwaysLookup(node, state, out) ==
  IF node.function \in DOMAIN tools
  THEN [kind |-> out.kind, value |-> out.value, text |-> "capability raised"]
  ELSE [kind |-> "raises", value |-> EmptyMap, text |-> "Function not found"]

\* Node.execute: the value handed to update_state, or the exception raised
NodeExecute(node, state, out) ==
  IF node.node_type = "function"
  THEN IF node.function \in DOMAIN tools
       THEN [kind |-> out.kind, value |-> out.value, text |-> "capability raised"]
       ELSE [kind |-> "raises", value |-> EmptyMap, text |-> "Function not found"]
  ELSE [kind |-> "mapping", value |-> state, text |-> ""]

\* the except clause around the whole traversal
OuterExcept(c, e) ==
  [c EXCEPT !.ws = add_log_entry(set_status(c.ws, "failed"), OrUnknown(c.ws.current_node),
                                 c.ws.state, WorkflowFailedMsg(e)),
            !.pc = "return"]

\* "quality_score" in state and state.get("quality_score", 0) < state.get("threshold", 80)
ScoreBelowThreshold(state) ==
  /\ "quality_score" \in DOMAIN state
  /\ Get(state, "quality_score", DefaultQualityScore) < Get(state, "threshold", DefaultThreshold)

\* fault variant of LoopBackApplies: the redirect does not look for check_complexity in graph.nodes
LoopBackApplies_NoNodeCheck(g, state, lc2) ==
  /\ lc2 = "true"
  /\ ScoreBelowThreshold(state)

\* the secondary loop-back rule applies to this state
LoopBackApplies(g, state, lc2) ==
  /\ lc2 = "true"
  /\ ScoreBelowThreshold(state)
  /\ LoopBackNode \in DOMAIN g.nodes

\* fault variant of Advance: the redirect to check_complexity does not count
Advance_RedirectUncounted(c, g, lc1, lc2) ==
  IF c.loop_condition # None /\ lc1 = "raises" THEN OuterExcept(c, "loop_condition raised")
  ELSE LET next_node == get_next_node(g, c.current_node_name, c.ws.state) IN
       IF next_node # None THEN [c EXCEPT !.current_node_name = next_node]
       ELSE IF c.loop_condition = None THEN [c EXCEPT !.current_node_name = None]
       ELSE IF lc2 = "raises" THEN OuterExcept(c, "loop_condition raised")
       ELSE IF LoopBackApplies(g, c.ws.state, lc2)
            THEN LET lic == c.loop_iteration_count IN
                 IF lic > max_loop_iterations
                 THEN [c EXCEPT !.loop_iteration_count = lic,
                                !.ws = set_status(c.ws, "stopped"),
                                !.pc = "finalize"]
                 ELSE [c EXCEPT !.loop_iteration_count = lic,
                                !.current_node_name = LoopBackNode]
       ELSE [c EXCEPT !.current_node_name = None]

\* the part of an iteration after the node has been executed and logged
Advance(c, g, lc1, lc2) ==
  IF c.loop_condition # None /\ lc1 = "raises" THEN OuterExcept(c, "loop_condition raised")
  ELSE LET next_node == get_next_node(g, c.current_node_name, c.ws.state) IN
       IF next_node # None THEN [c EXCEPT !.current_node_name = next_node]
       ELSE IF c.loop_condition = None THEN [c EXCEPT !.current_node_name = None]
       ELSE IF lc2 = "raises" THEN OuterExcept(c, "loop_condition raised")
       ELSE IF LoopBackApplies(g, c.ws.state, lc2)
            THEN LET lic == c.loop_iteration_count + 1 IN
                 IF lic > max_loop_iterations
                 THEN [c EXCEPT !.loop_iteration_count = lic,
                                !.ws = set_status(c.ws, "stopped"),
                                !.pc = "finalize"]
                 ELSE [c EXCEPT !.loop_iteration_count = lic,
                                !.current_node_name = LoopBackNode]
       ELSE [c EXCEPT !.current_node_name = None]

\* fault variant of ExecuteNode: the success entry holds the state from before the merge
ExecuteNode_SnapshotBeforeMerge(c, g, out, lc1, lc2) ==
  LET cur == c.current_node_name
      ws1 == [c.ws EXCEPT !.current_node = cur]
      res == NodeExecute(g.nodes[cur], ws1.state, out)
  IN IF res.kind = "raises"
     THEN [c EXCEPT !.ws = set_status(add_log_entry(ws1, cur, ws1.state, ErrorMsg(cur, res.text)), "failed"),
                    !.pc = "finalize"]
     ELSE IF res.kind = "scalar"
     THEN [c EXCEPT !.ws = set_status(add_log_entry(ws1, cur, ws1.state,
                                                    ErrorMsg(cur, "object is not iterable")), "failed"),
                    !.pc = "finalize"]
     ELSE LET live == IF res.kind = "pops_in_place"
                      THEN [ws1 EXCEPT !.state = Pop(@, PoppedKey)] ELSE ws1
              ws2 == update_state(live, IF res.kind = "mapping" THEN res.value ELSE EmptyMap)
              ws3 == add_log_entry(ws2, cur, ws1.state, SuccessMsg(cur))
          IN Advance([c EXCEPT !.ws = ws3], g, lc1, lc2)

\* the node execution of an iteration: execute, merge, log
ExecuteNode(c, g, out, lc1, lc2) ==
  LET cur == c.current_node_name
      ws1 == [c.ws EXCEPT !.current_node = cur]
      res == NodeExecute(g.nodes[cur], ws1.state, out)
  IN IF res.kind = "raises"
     THEN [c EXCEPT !.ws = set_status(add_log_entry(ws1, cur, ws1.state, ErrorMsg(cur, res.text)), "failed"),
                    !.pc = "finalize"]
     ELSE IF res.kind = "scalar"
     THEN [c EXCEPT !.ws = set_status(add_log_entry(ws1, cur, ws1.state,
                                                    ErrorMsg(cur, "object is not iterable")), "failed"),
                    !.pc = "finalize"]
     ELSE LET live == IF res.kind = "pops_in_place"
                      THEN [ws1 EXCEPT !.state = Pop(@, PoppedKey)] ELSE ws1
              ws2 == update_state(live, IF res.kind = "mapping" THEN res.value ELSE EmptyMap)
              ws3 == add_log_entry(ws2, cur, ws2.state, SuccessMsg(cur))
          IN Advance([c EXCEPT !.ws = ws3], g, lc1, lc2)

\* fault variant of LoopBody: the per-cycle stop does not append its log entry
LoopBody_NoLimitEntry(c, g, out, lc1, lc2) ==
  LET cur == c.current_node_name
      revisit == cur \in c.visited_nodes
      lic == IF revisit THEN c.loop_iteration_count + 1 ELSE 0
      c1 == [c EXCEPT !.iteration_count = @ + 1,
                      !.loop_iteration_count = lic,
                      !.visited_nodes = @ \cup {cur}]
  IN IF revisit /\ lic > max_loop_iterations
     THEN [c1 EXCEPT !.ws = set_status(c.ws, "stopped"), !.pc = "finalize"]
     ELSE ExecuteNode(c1, g, out, lc1, lc2)

\* func(state) passes the live state mapping: a capability of kind
\* "appends_in_place" appends to the list under "items", if there is one and it is
\* empty, and returns {}
HeapAfter(c, g, out) ==
  LET cur == c.current_node_name
      limit == cur \in c.visited_nodes /\ c.loop_iteration_count + 1 > max_loop_iterations
  IN IF /\ ~limit
        /\ g.nodes[cur].node_type = "function" /\ g.nodes[cur].function \in DOMAIN tools
        /\ out.kind = "appends_in_place"
        /\ NestedKey \in DOMAIN c.ws.state
        /\ heap[c.ws.state[NestedKey]] = << >>
     THEN [heap EXCEPT ![c.ws.state[NestedKey]] = Append(@, "x")]
     ELSE heap

\* fault variant of LoopBody: a revisit beyond max_loop_iterations does not stop the run
LoopBody_NoCycleStop(c, g, out, lc1, lc2) ==
  LET cur == c.current_node_name
      revisit == cur \in c.visited_nodes
      lic == IF revisit THEN c.loop_iteration_count + 1 ELSE 0
      c1 == [c EXCEPT !.iteration_count = @ + 1,
                      !.loop_iteration_count = lic,
                      !.visited_nodes = @ \cup {cur}]
  IN IF FALSE
     THEN [c1 EXCEPT !.ws = set_status(add_log_entry(c.ws, cur, c.ws.state, LoopLimitMsg), "stopped"),
                     !.pc = "finalize"]
     ELSE ExecuteNode(c1, g, out, lc1, lc2)

\* one iteration of the while loop
LoopBody(c, g, out, lc1, lc2) ==
  LET cur == c.current_node_name
      revisit == cur \in c.visited_nodes
      lic == IF revisit THEN c.loop_iteration_count + 1 ELSE 0
      c1 == [c EXCEPT !.iteration_count = @ + 1,
                      !.loop_iteration_count = lic,
                      !.visited_nodes = @ \cup {cur}]
  IN IF revisit /\ lic > max_loop_iterations
     THEN [c1 EXCEPT !.ws = set_status(add_log_entry(c.ws, cur, c.ws.state, LoopLimitMsg), "stopped"),
                     !.pc = "finalize"]
     ELSE ExecuteNode(c1, g, out, lc1, lc2)

\* fault variant of WhileCond: the loop is not bounded by max_iterations
WhileCond_NoBound(c) == Truthy(c.current_node_name)

\* the condition of the while loop
WhileCond(c) == Truthy(c.current_node_name) /\ c.iteration_count < max_iterations

\* fault variant of FinalizeStatus: a run that is still running is not set to completed
FinalizeStatus_NoCompleted(c) == [c EXCEPT !.pc = "capcheck"]

\* if workflow_state.status == "running": set_status("completed")
FinalizeStatus(c) ==
  [c EXCEPT !.ws = IF c.ws.status = "running" THEN set_status(c.ws, "completed") ELSE c.ws,
            !.pc = "capcheck"]

\* if iteration_count >= self.max_iterations: set_status("stopped"); add_log_entry(...)
FinalizeCap(c) ==
  [c EXCEPT !.ws = IF c.iteration_count >= max_iterations
                   THEN add_log_entry(set_status(c.ws, "stopped"), OrUnknown(c.ws.current_node),
                                      c.ws.state, MaxIterMsg)
                   ELSE c.ws,
            !.pc = "return"]

\* fault variant of NewCall: the traversal starts at check_complexity when the graph has it
NewCall_AtLoopBackNode(g, gid, initial_state, loop_condition, rid) ==
  [graph_id |-> gid, initial_state |-> initial_state, loop_condition |-> loop_condition,
   run_id |-> rid, pc |-> "loop",
   current_node_name |-> IF LoopBackNode \in DOMAIN g.nodes THEN LoopBackNode ELSE g.entry_node,
   visited_nodes |-> {},
   iteration_count |-> 0, loop_iteration_count |-> 0,
   ws |-> WorkflowState(initial_state, rid, gid)]

\* the locals of a run_workflow activation right before the while loop
NewCall(g, gid, initial_state, loop_condition, rid) ==
  [graph_id |-> gid, initial_state |-> initial_state, loop_condition |-> loop_condition,
   run_id |-> rid, pc |-> "loop",
   current_node_name |-> g.entry_node, visited_nodes |-> {},
   iteration_count |-> 0, loop_iteration_count |-> 0,
   ws |-> WorkflowState(initial_state, rid, gid)]

\* WorkflowEngine.get_run_state
get_run_state(rid) == IF rid \in DOMAIN runs THEN calls[runs[rid]].ws ELSE None

\* WorkflowEngine.get_graph
get_graph(gid) == IF gid \in DOMAIN graphs THEN graphs[gid] ELSE None

(* ---------------------------------------------------------------- actions *)
\* no run_workflow activation is in progress
Idle == \A i \in DOMAIN calls : calls[i].pc = "done"

\* the node sets callers submit: graphs of at most two nodes
NodeSets == {S \in SUBSET Names : Cardinality(S) <= 2}

\* the edge mappings callers submit: from_node -> to_node over the names
EdgeMaps == UNION { [D -> Names] : D \in NodeSets }

\* the graphs callers submit: node definitions, edge mapping, entry node
GraphInputs ==
  { [nodes |-> [n \in t[1] |-> Node(n, IF n \in t[2] THEN "passthrough" ELSE "function")],
     edges |-> t[3], entry_node |-> t[4]]
    : t \in NodeSets \X (SUBSET PassNames) \X EdgeMaps \X Names }

\* fault variant of CreateGraph: the graph is stored before it is validated
CreateGraph_StoreFirst(gid, in) ==
  /\ LET graph == Graph(gid, in.nodes, in.edges, in.entry_node)
         error == validate(graph)
     IN /\ graphs' = [x \in DOMAIN graphs \cup {gid} |-> IF x = gid THEN graph ELSE graphs[x]]
        /\ outcome' = [op |-> "create_graph", arg |-> graph,
                       raised |-> IF error # "ok" THEN error ELSE None,
                       returned |-> IF error # "ok" THEN None ELSE gid]
  /\ UNCHANGED <<runs, max_iterations, max_loop_iterations, tools, tool_descriptions, calls, heap, threads>>

\* WorkflowEngine.create_graph
CreateGraph(gid, in) ==
  /\ LET graph == Graph(gid, in.nodes, in.edges, in.entry_node)
         error == validate(graph)
     IN IF error # "ok"
        THEN /\ outcome' = [op |-> "create_graph", arg |-> graph, raised |-> error, returned |-> None]
             /\ UNCHANGED graphs
        ELSE /\ graphs' = [x \in DOMAIN graphs \cup {gid} |-> IF x = gid THEN graph ELSE graphs[x]]
             /\ outcome' = [op |-> "create_graph", arg |-> graph, raised |-> None, returned |-> gid]
  /\ UNCHANGED <<runs, max_iterations, max_loop_iterations, tools, tool_descriptions, calls, heap, threads>>

\* fault variant of RunWorkflowStart: the Run State is created and stored before the
\* graph is looked up
RunWorkflowStart_StoreFirst(gid, initial_state, loop_condition, rid) ==
  /\ IF gid \notin DOMAIN graphs
     THEN /\ outcome' = [op |-> "run_workflow", arg |-> gid, raised |-> "Graph not found", returned |-> None]
          /\ runs' = [r \in DOMAIN runs \cup {rid} |-> IF r = rid THEN Len(calls) + 1 ELSE runs[r]]
          /\ UNCHANGED calls
     ELSE /\ calls' = Append(calls, NewCall(graphs[gid], gid, initial_state, loop_condition, rid))
          /\ runs' = [r \in DOMAIN runs \cup {rid} |-> IF r = rid THEN Len(calls) + 1 ELSE runs[r]]
          /\ outcome' = [op |-> "running", arg |-> gid, raised |-> None, returned |-> None]
  /\ UNCHANGED <<graphs, max_iterations, max_loop_iterations, tools, tool_descriptions, heap, threads>>

\* WorkflowEngine.run_workflow up to the while loop; no outcome while the call is running
RunWorkflowStart(gid, initial_state, loop_condition, rid) ==
  /\ IF gid \notin DOMAIN graphs
     THEN /\ outcome' = [op |-> "run_workflow", arg |-> gid, raised |-> "Graph not found", returned |-> None]
          /\ UNCHANGED <<runs, calls>>
     ELSE /\ calls' = Append(calls, NewCall(graphs[gid], gid, initial_state, loop_condition, rid))
          /\ runs' = [r \in DOMAIN runs \cup {rid} |-> IF r = rid THEN Len(calls) + 1 ELSE runs[r]]
          /\ outcome' = [op |-> "running", arg |-> gid, raised |-> None, returned |-> None]
  /\ UNCHANGED <<graphs, max_iterations, max_loop_iterations, tools, tool_descriptions, heap, threads>>

\* one iteration of the traversal loop of activation i, the capability behaving as one of outs
LoopStepOf(i, outs) ==
  /\ calls[i].pc = "loop"
  /\ WhileCond(calls[i])
  /\ \E out \in outs, lc1 \in DiscardedPredOutcomesOf(calls[i].loop_condition),
        lc2 \in PredOutcomesOf(calls[i].loop_condition) :
       /\ calls' = [calls EXCEPT ![i] = LoopBody(calls[i], graphs[calls[i].graph_id], out, lc1, lc2)]
       /\ heap' = HeapAfter(calls[i], graphs[calls[i].graph_id], out)
  /\ UNCHANGED <<graphs, runs, max_iterations, max_loop_iterations, tools, tool_descriptions, outcome, threads>>

\* one iteration of the traversal loop of activation i
LoopStep(i) == LoopStepOf(i, CapOutcomes)

\* the loop has ended (condition false, or break): the status check after the loop
FinalizeStatusStep(i) ==
  /\ \/ calls[i].pc = "finalize"
     \/ calls[i].pc = "loop" /\ ~WhileCond(calls[i])
  /\ calls' = [calls EXCEPT ![i] = FinalizeStatus(calls[i])]
  /\ UNCHANGED <<graphs, runs, max_iterations, max_loop_iterations, tools, tool_descriptions, outcome, heap, threads>>

\* the global-cap check after the loop
FinalizeCapStep(i) ==
  /\ calls[i].pc = "capcheck"
  /\ calls' = [calls EXCEPT ![i] = FinalizeCap(calls[i])]
  /\ UNCHANGED <<graphs, runs, max_iterations, max_loop_iterations, tools, tool_descriptions, outcome, heap, threads>>

\* return run_id
ReturnStep(i) ==
  /\ calls[i].pc = "return"
  /\ calls' = [calls EXCEPT ![i].pc = "done"]
  /\ outcome' = [op |-> "run_workflow", arg |-> i, raised |-> None, returned |-> calls[i].run_id]
  /\ UNCHANGED <<graphs, runs, max_iterations, max_loop_iterations, tools, tool_descriptions, heap, threads>>

\* fault variant of GetRunState: the entry is taken out of the run store when it is read
GetRunState_Pop(rid) ==
  /\ outcome' = [op |-> "get_run_state", arg |-> rid, raised |-> None, returned |-> get_run_state(rid)]
  /\ runs' = [r \in DOMAIN runs \ {rid} |-> runs[r]]
  /\ UNCHANGED <<graphs, max_iterations, max_loop_iterations, tools, tool_descriptions, calls, heap, threads>>

\* a caller reads a run: WorkflowEngine.get_run_state
GetRunState(rid) ==
  /\ outcome' = [op |-> "get_run_state", arg |-> rid, raised |-> None, returned |-> get_run_state(rid)]
  /\ UNCHANGED <<graphs, runs, max_iterations, max_loop_iterations, tools, tool_descriptions, calls, heap, threads>>

\* the error ToolRegistry.register raises for func, or "ok"
register_error(func) ==
  IF ~callable(func) THEN "must be callable"
  ELSE IF Len(Parameters(func)) = 0 THEN "must accept at least one parameter (state)"
  ELSE "ok"

\* description or f"Tool: {name}"
description_or_default(name, description) ==
  IF Truthy(description) THEN description ELSE "Tool: " \o name

\* fault variant of Register: the capability is stored before it is checked
Register_StoreFirst(name, func, description) ==
  /\ tools' = [n \in DOMAIN tools \cup {name} |-> IF n = name THEN func ELSE tools[n]]
  /\ IF register_error(func) # "ok"
     THEN UNCHANGED tool_descriptions
     ELSE tool_descriptions' = [n \in DOMAIN tool_descriptions \cup {name} |->
                                  IF n = name THEN description_or_default(name, description)
                                  ELSE tool_descriptions[n]]
  /\ outcome' = [op |-> "register",
                 arg |-> [name |-> name, func |-> func, description |-> description],
                 raised |-> IF register_error(func) # "ok" THEN register_error(func) ELSE None,
                 returned |-> None]
  /\ UNCHANGED <<graphs, runs, max_iterations, max_loop_iterations, calls, heap, threads>>

\* ToolRegistry.register
Register(name, func, description) ==
  /\ IF register_error(func) # "ok"
     THEN UNCHANGED <<tools, tool_descriptions>>
     ELSE /\ tools' = [n \in DOMAIN tools \cup {name} |-> IF n = name THEN func ELSE tools[n]]
          /\ tool_descriptions' = [n \in DOMAIN tool_descriptions \cup {name} |->
                                     IF n = name THEN description_or_default(name, description)
                                     ELSE tool_descriptions[n]]
  /\ outcome' = [op |-> "register",
                 arg |-> [name |-> name, func |-> func, description |-> description],
                 raised |-> IF register_error(func) # "ok" THEN register_error(func) ELSE None,
                 returned |-> None]
  /\ UNCHANGED <<graphs, runs, max_iterations, max_loop_iterations, calls, heap, threads>>

\* fault variant of Unregister: the description of the name is left behind
Unregister_KeepDescription(name) ==
  /\ IF name \in DOMAIN tools
     THEN /\ tools' = [n \in DOMAIN tools \ {name} |-> tools[n]]
          /\ UNCHANGED tool_descriptions
     ELSE UNCHANGED <<tools, tool_descriptions>>
  /\ outcome' = [op |-> "unregister", arg |-> name, raised |-> None, returned |-> None]
  /\ UNCHANGED <<graphs, runs, max_iterations, max_loop_iterations, calls, heap, threads>>

\* ToolRegistry.unregister
Unregister(name) ==
  /\ IF name \in DOMAIN tools
     THEN /\ tools' = [n \in DOMAIN tools \ {name} |-> tools[n]]
          /\ tool_descriptions' = [n \in DOMAIN tool_descriptions \ {name} |-> tool_descriptions[n]]
     ELSE UNCHANGED <<tools, tool_descriptions>>
  /\ outcome' = [op |-> "unregister", arg |-> name, raised |-> None, returned |-> None]
  /\ UNCHANGED <<graphs, runs, max_iterations, max_loop_iterations, calls, heap, threads>>

\* ToolRegistry.get
get(name) == IF name \in DOMAIN tools THEN tools[name] ELSE None

\* a caller looks a capability up: ToolRegistry.get
GetTool(name) ==
  /\ outcome' = [op |-> "get", arg |-> name, raised |-> None, returned |-> get(name)]
  /\ UNCHANGED <<graphs, runs, max_iterations, max_loop_iterations, tools, tool_descriptions, calls, heap, threads>>

\* ToolRegistry.exists
exists(name) == name \in DOMAIN tools

\* a caller asks whether a capability is registered: ToolRegistry.exists
ExistsTool(name) ==
  /\ outcome' = [op |-> "exists", arg |-> name, raised |-> None, returned |-> exists(name)]
  /\ UNCHANGED <<graphs, runs, max_iterations, max_loop_iterations, tools, tool_descriptions, calls, heap, threads>>

\* ToolRegistry.list_tools: a copy of the description mapping
list_tools == tool_descriptions

\* a caller lists the capabilities: ToolRegistry.list_tools
ListTools ==
  /\ outcome' = [op |-> "list_tools", arg |-> None, raised |-> None, returned |-> list_tools]
  /\ UNCHANGED <<graphs, runs, max_iterations, max_loop_iterations, tools, tool_descriptions, calls, heap, threads>>

\* ToolRegistry.execute on the caller's mapping: what is raised, and the caller's mapping
\* after the call (a mapping result is merged into it, any other result is dropped)
execute(name, state, out) ==
  IF name \notin DOMAIN tools
  THEN [raised |-> "not found in registry", state |-> state]
  ELSE IF out.kind = "raises" THEN [raised |-> "capability raised", state |-> state]
  ELSE IF out.kind = "mapping" THEN [raised |-> None, state |-> Merge(state, out.value)]
  ELSE IF out.kind = "pops_in_place" THEN [raised |-> None, state |-> Pop(state, PoppedKey)]
  ELSE [raised |-> None, state |-> state]

\* a caller invokes a capability by name: ToolRegistry.execute
ExecuteTool(name, state, out) ==
  /\ LET res == execute(name, state, out) IN
       outcome' = [op |-> "execute",
                   arg |-> [name |-> name, state |-> state, state_after |-> res.state],
                   raised |-> res.raised,
                   returned |-> IF res.raised = None THEN res.state ELSE None]
  /\ heap' = IF /\ name \in DOMAIN tools /\ out.kind = "appends_in_place"
                /\ NestedKey \in DOMAIN state /\ heap[state[NestedKey]] = << >>
             THEN [heap EXCEPT ![state[NestedKey]] = Append(@, "x")]
             ELSE heap
  /\ UNCHANGED <<graphs, runs, max_iterations, max_loop_iterations, tools, tool_descriptions, calls, threads>>

(* the registry under threads: one step per access to one of its two mappings *)
\* thread t goes to position pc of operation op on name
AtThread(t, op, name, pc, raised) ==
  threads' = [threads EXCEPT ![t] = [op |-> op, name |-> name, pc |-> pc, raised |-> raised]]

\* ToolRegistry.register, up to and including self._tools[name] = func
RegisterStoreTool(t, name, func) ==
  /\ threads[t].pc = "idle"
  /\ register_error(func) = "ok"
  /\ tools' = [n \in DOMAIN tools \cup {name} |-> IF n = name THEN func ELSE tools[n]]
  /\ AtThread(t, "register", name, "store_description", None)
  /\ UNCHANGED <<graphs, runs, max_iterations, max_loop_iterations, tool_descriptions, calls, outcome, heap>>

\* ToolRegistry.register: self._tool_descriptions[name] = description or f"Tool: {name}"
RegisterStoreDescription(t) ==
  /\ threads[t].pc = "store_description"
  /\ tool_descriptions' = [n \in DOMAIN tool_descriptions \cup {threads[t].name} |->
                             IF n = threads[t].name
                             THEN description_or_default(threads[t].name, None)
                             ELSE tool_descriptions[n]]
  /\ AtThread(t, "register", threads[t].name, "idle", None)
  /\ UNCHANGED <<graphs, runs, max_iterations, max_loop_iterations, tools, calls, outcome, heap>>

\* ToolRegistry.unregister: if name in self._tools
UnregisterTest(t, name) ==
  /\ threads[t].pc = "idle"
  /\ AtThread(t, "unregister", name, IF name \in DOMAIN tools THEN "del_tool" ELSE "idle", None)
  /\ UNCHANGED <<graphs, runs, max_iterations, max_loop_iterations, tools, tool_descriptions, calls,
                 outcome, heap>>

\* ToolRegistry.unregister: del self._tools[name]
UnregisterDelTool(t) ==
  /\ threads[t].pc = "del_tool"
  /\ IF threads[t].name \in DOMAIN tools
     THEN /\ tools' = [n \in DOMAIN tools \ {threads[t].name} |-> tools[n]]
          /\ AtThread(t, "unregister", threads[t].name, "del_description", None)
     ELSE /\ UNCHANGED tools
          /\ AtThread(t, "unregister", threads[t].name, "idle", "KeyError")
  /\ UNCHANGED <<graphs, runs, max_iterations, max_loop_iterations, tool_descriptions, calls, outcome, heap>>

\* ToolRegistry.unregister: del self._tool_descriptions[name]
UnregisterDelDescription(t) ==
  /\ threads[t].pc = "del_description"
  /\ IF threads[t].name \in DOMAIN tool_descriptions
     THEN /\ tool_descriptions' = [n \in DOMAIN tool_descriptions \ {threads[t].name} |->
                                     tool_descriptions[n]]
          /\ AtThread(t, "unregister", threads[t].name, "idle", None)
     ELSE /\ UNCHANGED tool_descriptions
          /\ AtThread(t, "unregister", threads[t].name, "idle", "KeyError")
  /\ UNCHANGED <<graphs, runs, max_iterations, max_loop_iterations, tools, calls, outcome, heap>>

(* ---------------------------------------------------------- specification *)
\* WorkflowEngine.__init__ with the two caps as configured, the registry as left by the imports
Init ==
  /\ graphs = << >>
  /\ runs = << >>
  /\ max_iterations \in 1..MaxIterCap
  /\ max_loop_iterations \in 0..MaxLoopCap
  /\ tools = [n \in {LoopBackNode} |-> ImportedCapability]
  /\ tool_descriptions = [n \in {LoopBackNode} |-> ImportedDescription]
  /\ calls = << >>
  /\ outcome = [op |-> "init", arg |-> None, raised |-> None, returned |-> None]
  /\ heap = [o \in ObjectIds |-> << >>]
  /\ threads = [t \in Threads |-> IdleThread]

\* a caller may start an engine-level call: the engine is driven by one caller at a time
CanCall(op) == Idle /\ outcome.op # op

\* a further run_workflow call can start: every run id of the model is handed out at most once
CanRun == Idle /\ Len(calls) < Cardinality(RunIds)

Next ==
  \/ /\ CanCall("create_graph")
     /\ \E gid \in GraphIds \ DOMAIN graphs, in \in GraphInputs : CreateGraph(gid, in)
  \/ /\ Idle
     /\ \E gid \in RequestGraphIds :
          IF gid \in DOMAIN graphs
          THEN /\ CanRun
               /\ \E s \in InitStates, lc \in LoopConditions, rid \in RunIds :
                    RunWorkflowStart(gid, s, lc, rid)
          ELSE \* the other arguments are not looked at when the graph is unknown
               RunWorkflowStart(gid, EmptyMap, None, None)
  \/ \E i \in DOMAIN calls : LoopStep(i)
  \/ \E i \in DOMAIN calls : FinalizeStatusStep(i)
  \/ \E i \in DOMAIN calls : FinalizeCapStep(i)
  \/ \E i \in DOMAIN calls : ReturnStep(i)
  \/ /\ CanCall("get_run_state")
     /\ \E rid \in RunIds : GetRunState(rid)
  \/ /\ CanRun /\ outcome.op # "register"
     /\ \E name \in RegNames : Register(name, ImportedCapability, None)
  \/ /\ CanRun /\ outcome.op # "unregister"
     /\ \E name \in RegNames : Unregister(name)

Spec == Init /\ [][Next]_vars

\* run_workflow is a synchronous call: once started it keeps executing until it returns
RunStep ==
  \E i \in DOMAIN calls :
    LoopStep(i) \/ FinalizeStatusStep(i) \/ FinalizeCapStep(i) \/ ReturnStep(i)

\* the initial states and capability results that decide where a traversal goes
FairInitStates == {EmptyMap, [quality_score |-> 0]}
FairCapOutcomes == {out \in CapOutcomes :
                      \/ out.kind = "raises"
                      \/ out.kind = "mapping" /\ out.value \in {EmptyMap, [quality_score |-> 0]}}

\* one caller creates a graph and runs it, for any graph, loop predicate and capability results
NextFair ==
  \/ /\ CanCall("create_graph")
     /\ \E gid \in GraphIds \ DOMAIN graphs, in \in GraphInputs : CreateGraph(gid, in)
  \/ /\ CanRun
     /\ \E gid \in DOMAIN graphs, s \in FairInitStates, lc \in LoopConditions, rid \in RunIds :
          RunWorkflowStart(gid, s, lc, rid)
  \/ \E i \in DOMAIN calls : LoopStepOf(i, FairCapOutcomes)
  \/ \E i \in DOMAIN calls : FinalizeStatusStep(i)
  \/ \E i \in DOMAIN calls : FinalizeCapStep(i)
  \/ \E i \in DOMAIN calls : ReturnStep(i)

SpecFair == Init /\ [][NextFair]_vars /\ WF_vars(RunStep)

\* the registry on its own: any caller registers, unregisters and looks up capabilities
\* under the names nodes use, while no run is in progress
NextRegistry ==
  \/ \E name \in Names, func \in Capabilities, description \in Descriptions :
       Register(name, func, description)
  \/ \E name \in Names : Unregister(name)
  \/ \E name \in Names : GetTool(name)
  \/ \E name \in Names : ExistsTool(name)
  \/ ListTools
  \/ \E name \in Names, state \in InitStates, out \in CapOutcomes : ExecuteTool(name, state, out)

\* the registry on its own: the engine's caps play no part in it, so one engine is enough
InitRegistry == Init /\ max_iterations = MaxIterCap /\ max_loop_iterations = MaxLoopCap

SpecRegistry == InitRegistry /\ [][NextRegistry]_vars

(* several runs on one engine *)
\* the number of run_workflow calls of a behaviour
MaxRuns == 2
\* the names the threads register and unregister
ThreadNames == {"a", LoopBackNode}

\* threads call the registry with nothing between them: every access to a mapping is a
\* step of its own, and a lookup can fall between any two of them
NextThreads ==
  \/ \E t \in Threads, name \in ThreadNames : RegisterStoreTool(t, name, ImportedCapability)
  \/ \E t \in Threads : RegisterStoreDescription(t)
  \/ \E t \in Threads, name \in ThreadNames : UnregisterTest(t, name)
  \/ \E t \in Threads : UnregisterDelTool(t)
  \/ \E t \in Threads : UnregisterDelDescription(t)
  \/ \E name \in ThreadNames : GetTool(name)
  \/ \E name \in ThreadNames : ExistsTool(name)
  \/ ListTools

SpecThreads == InitRegistry /\ [][NextThreads]_vars

\* the values f"run_{uuid.uuid4().hex[:8]}" and str(uuid.uuid4()) take
IssuedRunIds == {"run_1", "run_2"}
IssuedGraphIds == {"g1", "g2"}
\* the run ids callers ask for: the issued ones and one that is never issued
QueryRunIds == IssuedRunIds \cup {"run_0"}
\* the caps this engine is constructed with
RunsMaxIterations == 3
RunsMaxLoopIterations == 1
\* the graphs callers submit: the single node "a", and the chain a -> check_complexity
RunsGraphInputs ==
  { [nodes |-> [n \in {"a"} |-> Node(n, "function")], edges |-> << >>, entry_node |-> "a"],
    [nodes |-> [n \in {"a", LoopBackNode} |-> Node(n, "function")],
     edges |-> [n \in {"a"} |-> LoopBackNode], entry_node |-> "a"] }
\* the initial states callers pass: empty, or holding the caller's list object
RunsInitStates == {EmptyMap, [items |-> "list_1"]}
\* what the capabilities do in these runs
RunsCapOutcomes == {out \in CapOutcomes : out.kind \in {"appends_in_place", "raises"}}

InitRuns == Init /\ max_iterations = RunsMaxIterations /\ max_loop_iterations = RunsMaxLoopIterations

\* one caller at a time creates graphs, starts runs, reads runs and changes the registry;
\* a run id is whatever uuid4 yields
NextRuns ==
  \/ /\ Idle
     /\ \E gid \in IssuedGraphIds \ DOMAIN graphs, in \in RunsGraphInputs : CreateGraph(gid, in)
  \/ /\ Idle /\ Len(calls) < MaxRuns
     /\ \E gid \in DOMAIN graphs, s \in RunsInitStates, rid \in IssuedRunIds :
          RunWorkflowStart(gid, s, None, rid)
  \/ \E i \in DOMAIN calls : LoopStepOf(i, RunsCapOutcomes)
  \/ \E i \in DOMAIN calls : FinalizeStatusStep(i)
  \/ \E i \in DOMAIN calls : FinalizeCapStep(i)
  \/ \E i \in DOMAIN calls : ReturnStep(i)
  \/ /\ Idle /\ \E rid \in QueryRunIds : GetRunState(rid)
  \/ /\ Idle /\ \E name \in RegNames : Register(name, ImportedCapability, None)
  \/ /\ Idle /\ \E name \in RegNames : Unregister(name)

SpecRuns == InitRuns /\ [][NextRuns]_vars


(* ------------------------------------------------------------- properties *)
\* what a reader of mapping m sees: every value, a list object read through to its content
Contents(m) == [k \in DOMAIN m |-> IF k = NestedKey THEN heap[m[k]] ELSE m[k]]
\* the terminal lifecycle states
Terminal == {"completed", "failed", "stopped"}
\* the log of activation i
Log(i) == calls[i].ws.execution_log
\* activation i has returned
Done(i) == calls[i].pc = "done"
\* the graph activation i runs
GraphOf(i) == graphs[calls[i].graph_id]
\* the kinds of the messages in the log of activation i
Kinds(i) == {Log(i)[k].message.kind : k \in DOMAIN Log(i)}
\* the log entries of activation i that record a node execution
Successes(i) == {k \in DOMAIN Log(i) : Log(i)[k].message.kind = "executed successfully"}
\* every capability invoked by activation i succeeded and the loop predicate did not raise
AllSucceeded(i) == Kinds(i) \cap {"Error in node", "Workflow execution failed"} = {}

\* C1: once the status of a run is completed, failed or stopped, no later step of
\* run_workflow changes it.
C1_TerminalStatusIsFinal ==
  [][\A i \in DOMAIN calls :
       calls[i].ws.status \in Terminal => calls'[i].ws.status = calls[i].ws.status]_vars

\* C2: a run in which the capability of a node N raised ends with status failed, and
\* the last log entry is the failure entry of N carrying the error text.
C2_RaisingNodeEndsFailed ==
  \A i \in DOMAIN calls :
    (Done(i) /\ "Error in node" \in Kinds(i)) =>
      LET last == Log(i)[Len(Log(i))] IN
      /\ calls[i].ws.status = "failed"
      /\ last.message.kind = "Error in node"
      /\ last.message.node = last.node
      /\ last.message.text # ""

C4_StoppedRunExplainsCap ==
  \A i \in DOMAIN calls :
    (Done(i) /\ calls[i].ws.status = "stopped") =>
      /\ Len(Log(i)) > 0
      /\ Log(i)[Len(Log(i))].message.kind
           \in {"Loop iteration limit reached", "Maximum iterations reached"}

\* the graph is the 2-cycle A -> B -> A over two non-empty names, entered at A
TwoCycle(g) ==
  \E A \in DOMAIN g.nodes, B \in DOMAIN g.nodes :
    /\ A # B /\ Truthy(A) /\ Truthy(B)
    /\ DOMAIN g.nodes = {A, B}
    /\ DOMAIN g.edges = {A, B} /\ g.edges[A] = B /\ g.edges[B] = A
    /\ g.entry_node = A

\* activation i is a finished run of the 2-cycle without loop predicate, all capabilities succeeding
TwoCycleRun(i) ==
  Done(i) /\ TwoCycle(GraphOf(i)) /\ calls[i].loop_condition = None /\ AllSucceeded(i)

\* C5 as stated: the 2-cycle run ends stopped with at most max_loop_iterations + 2 log entries.
C5_TwoCycleLogAtMostCapPlus2 ==
  \A i \in DOMAIN calls :
    TwoCycleRun(i) => /\ calls[i].ws.status = "stopped"
                      /\ Len(Log(i)) <= max_loop_iterations + 2

\* C5 amended: the 2-cycle run ends stopped after at most max_loop_iterations + 2 node
\* executions; the log has at most max_loop_iterations + 4 entries, and exactly
\* max_loop_iterations + 3, the last one the loop-limit entry, when max_iterations
\* exceeds max_loop_iterations + 3.
C5_TwoCycleStopsAtCapPlus3 ==
  \A i \in DOMAIN calls :
    TwoCycleRun(i) =>
      /\ calls[i].ws.status = "stopped"
      /\ Cardinality(Successes(i)) <= max_loop_iterations + 2
      /\ Len(Log(i)) <= max_loop_iterations + 4
      /\ max_iterations > max_loop_iterations + 3 =>
           /\ Len(Log(i)) = max_loop_iterations + 3
           /\ Log(i)[Len(Log(i))].message.kind = "Loop iteration limit reached"

\* C5 witness: a 2-cycle run stopped by the per-cycle cap alone, with cap + 3 entries.
C5_Witness ==
  \E i \in DOMAIN calls :
    /\ TwoCycleRun(i)
    /\ max_iterations > max_loop_iterations + 3
    /\ Len(Log(i)) = max_loop_iterations + 3
    /\ calls[i].ws.status = "stopped"

\* the graph has exactly one node and no edges
SingleNode(g) == Cardinality(DOMAIN g.nodes) = 1 /\ DOMAIN g.edges = {}

IsChainOrder(g, seq) ==
  /\ Len(seq) = Cardinality(DOMAIN g.nodes)
  /\ {seq[k] : k \in DOMAIN seq} = DOMAIN g.nodes
  /\ seq[1] = g.entry_node
  /\ DOMAIN g.edges = {seq[k] : k \in 1..(Len(seq) - 1)}
  /\ \A k \in 1..(Len(seq) - 1) : g.edges[seq[k]] = seq[k + 1]

\* the sequences over the node names that can be a chain order
ChainOrders(g) ==
  {seq \in UNION {[1..n -> DOMAIN g.nodes] : n \in 1..Cardinality(Names)} : IsChainOrder(g, seq)}

\* C7: a run of a linear chain of n nodes, without loop predicate and with capabilities
\* that succeed, ends completed with exactly n log entries naming the nodes in chain order.
C7_ChainRunsEveryNodeInOrder ==
  \A i \in DOMAIN calls :
    (Done(i) /\ calls[i].loop_condition = None /\ AllSucceeded(i)) =>
      \A seq \in ChainOrders(GraphOf(i)) :
        /\ calls[i].ws.status = "completed"
        /\ Len(Log(i)) = Len(seq)
        /\ \A k \in DOMAIN seq : Log(i)[k].node = seq[k]

\* C8 as stated: create_graph fails exactly when the entry node or an edge endpoint is
\* not in the node set.
C8_CreateFailsIffDangling ==
  outcome.op = "create_graph" => (outcome.raised # None <=> ~WellFormed(outcome.arg))

\* C8 amended: create_graph fails exactly when the entry node is empty or not in the
\* node set or an edge endpoint is not in the node set; otherwise it returns the id under
\* which the graph is stored.
C8_CreateFailsIffInvalid ==
  outcome.op = "create_graph" =>
    /\ outcome.raised # None <=> (~Truthy(outcome.arg.entry_node) \/ ~WellFormed(outcome.arg))
    /\ outcome.raised = None =>
         outcome.returned \in DOMAIN graphs /\ graphs[outcome.returned] = outcome.arg

\* C8 witness: create_graph has rejected a graph whose only defect is an edge target
\* outside the node set.
C8_Witness ==
  /\ outcome.op = "create_graph" /\ outcome.raised # None
  /\ Truthy(outcome.arg.entry_node) /\ outcome.arg.entry_node \in DOMAIN outcome.arg.nodes
  /\ \A f \in DOMAIN outcome.arg.edges : f \in DOMAIN outcome.arg.nodes
  /\ \E f \in DOMAIN outcome.arg.edges : outcome.arg.edges[f] \notin DOMAIN outcome.arg.nodes

\* C9: a create_graph call that fails leaves the graph store and the run store
\* unchanged, and every graph in the graph store satisfies the validation invariants.
C9_FailedCreateStoresNothing ==
  /\ [](\A gid \in DOMAIN graphs : WellFormed(graphs[gid]) /\ graphs[gid].graph_id = gid)
  /\ [][(outcome.op # "create_graph" /\ outcome'.op = "create_graph" /\ outcome'.raised # None)
          => (graphs' = graphs /\ runs' = runs /\ outcome'.returned = None)]_vars

\* C9 witness: create_graph has failed and the stores are empty as before.
C9_Witness ==
  /\ outcome.op = "create_graph" /\ outcome.raised # None /\ outcome.returned = None
  /\ DOMAIN graphs = {} /\ DOMAIN runs = {}

\* C10: for every stored graph, get_next_node returns none or a node of the graph, and
\* the node a run is about to execute is none or a node of its graph.
C10_NextNodeInNodeSet ==
  /\ \A gid \in DOMAIN graphs : \A n \in Names \cup {None}, s \in InitStates \cup Updates :
       get_next_node(graphs[gid], n, s) \in DOMAIN graphs[gid].nodes \cup {None}
  /\ \A i \in DOMAIN calls :
       calls[i].current_node_name \in DOMAIN GraphOf(i).nodes \cup {None}

\* C10 witness: the loop-back redirect has chosen check_complexity after a node without
\* a declared edge.
C10_Witness ==
  \E i \in DOMAIN calls :
    /\ calls[i].pc = "loop"
    /\ Len(Log(i)) > 0
    /\ Log(i)[Len(Log(i))].node \notin DOMAIN GraphOf(i).edges
    /\ calls[i].current_node_name = LoopBackNode
    /\ Log(i)[Len(Log(i))].node # LoopBackNode

C12_UnknownGraphCreatesNoRun ==
  [][/\ (/\ outcome'.op = "run_workflow" /\ outcome'.raised # None
         /\ ~(outcome.op = "run_workflow" /\ outcome.raised # None /\ outcome.arg = outcome'.arg)) =>
          /\ outcome'.raised = "Graph not found"
          /\ outcome'.arg \notin DOMAIN graphs
          /\ runs' = runs /\ calls' = calls /\ graphs' = graphs
     /\ Len(calls') > Len(calls) =>
          /\ calls'[Len(calls')].graph_id \in DOMAIN graphs
          /\ outcome'.raised = None]_vars

\* C12 witness: run_workflow has failed for an unknown graph id while the run store
\* holds an earlier run, which is still the only one.
C12_Witness ==
  /\ outcome.op = "run_workflow" /\ outcome.raised = "Graph not found"
  /\ outcome.arg \notin DOMAIN graphs
  /\ DOMAIN runs # {} /\ Len(calls) = Cardinality(DOMAIN runs)

\* C13: no step of run_workflow changes what the caller's initial_state mapping holds
\* (same keys, same values), and a new Run State starts with status running and a state
\* equal to initial_state.
C13_CallerMappingUnchanged ==
  [][/\ \A i \in DOMAIN calls :
          Contents(calls[i].initial_state)' = Contents(calls[i].initial_state)
     /\ Len(calls') > Len(calls) =>
          LET c == calls'[Len(calls')] IN
          /\ c.ws.status = "running"
          /\ c.ws.state = c.initial_state
          /\ c.ws.execution_log = << >>]_vars

\* C14: a capability result that is not a mapping is discarded and the step counts as a
\* success: a node failure entry is only ever logged because the capability raised or
\* is not registered, never because of the type of its result, and a run does not fail
\* for it.
C14_NonMappingResultIsNoOp ==
  \A i \in DOMAIN calls : \A k \in DOMAIN Log(i) :
    Log(i)[k].message.kind = "Error in node" =>
      Log(i)[k].message.text \in {"capability raised", "Function not found"}

\* C15: every step of a run leaves the state unchanged or merges a returned mapping
\* into it: no key disappears, a key outside the returned mapping keeps its value, and
\* the state always has the keys of the initial state.
C15_MergeIsAddOrOverwrite ==
  /\ [](\A i \in DOMAIN calls : DOMAIN calls[i].initial_state \subseteq DOMAIN calls[i].ws.state)
  /\ [][\A i \in DOMAIN calls :
          /\ DOMAIN calls[i].ws.state \subseteq DOMAIN calls'[i].ws.state
          /\ \E u \in Updates : calls'[i].ws.state = Merge(calls[i].ws.state, u)]_vars

\* the log of activation i as a reader sees it: node, message and snapshot contents
LogContents(i) ==
  [k \in DOMAIN Log(i) |-> [node |-> Log(i)[k].node, message |-> Log(i)[k].message,
                            state_snapshot |-> Contents(Log(i)[k].state_snapshot)]]

\* C16: the execution log is append-only: after every step the log before the step is a
\* prefix of the log, entry by entry with the same node, snapshot and message, and the
\* length never decreases.
C16_LogIsAppendOnly ==
  [][\A i \in DOMAIN calls :
       /\ Len(LogContents(i)') >= Len(LogContents(i))
       /\ \A k \in DOMAIN LogContents(i) : LogContents(i)'[k] = LogContents(i)[k]]_vars

\* C17: the snapshot of a new log entry is the full state mapping at the moment of
\* logging, and no later step changes what the snapshot of an entry already logged holds.
C17_SnapshotIsIndependent ==
  [][\A i \in DOMAIN calls :
       /\ Len(Log(i)') > Len(Log(i)) =>
            Contents(Log(i)[Len(Log(i))].state_snapshot)' = Contents(calls[i].ws.state)'
       /\ \A k \in DOMAIN Log(i) :
            Contents(Log(i)[k].state_snapshot)' = Contents(Log(i)[k].state_snapshot)]_vars

\* the step executes, successfully, a node of activation i that has no declared edge
ExecutesNodeWithoutNext(i) ==
  /\ Len(Log(i)') = Len(Log(i)) + 1
  /\ Log(i)'[Len(Log(i)')].message.kind = "executed successfully"
  /\ Log(i)'[Len(Log(i)')].node \notin DOMAIN GraphOf(i).edges

\* every capability of activation i succeeded and the last node it executed has no
\* declared edge
LastNodeWithoutNext(i) ==
  /\ AllSucceeded(i)
  /\ Successes(i) # {}
  /\ LET last == CHOOSE k \in Successes(i) : \A j \in Successes(i) : j <= k
     IN Log(i)[last].node \notin DOMAIN GraphOf(i).edges

\* C18: after a node without next node, the run redirects to check_complexity only if a
\* loop predicate was supplied, the state has a quality_score below its threshold and
\* check_complexity is a node of the graph, and the redirect increments the per-cycle
\* counter; in every other case the run takes no redirect and completes: in particular a
\* run without loop predicate whose last node has no next node ends completed.
C18_RedirectOrComplete ==
  /\ [](\A i \in DOMAIN calls :
          (Done(i) /\ calls[i].loop_condition = None /\ LastNodeWithoutNext(i)) =>
            calls[i].ws.status = "completed")
  /\ [][\A i \in DOMAIN calls :
          ExecutesNodeWithoutNext(i) =>
            IF /\ calls[i].loop_condition # None
               /\ ScoreBelowThreshold(calls'[i].ws.state)
               /\ LoopBackNode \in DOMAIN GraphOf(i).nodes
            THEN \/ /\ calls'[i].pc = "loop" /\ calls'[i].current_node_name = LoopBackNode
                    /\ calls'[i].loop_iteration_count
                         = 1 + (IF calls[i].current_node_name \in calls[i].visited_nodes
                                THEN calls[i].loop_iteration_count + 1 ELSE 0)
                 \/ /\ calls'[i].current_node_name = None
                    /\ calls'[i].ws.status = "running"
            ELSE /\ calls'[i].current_node_name = None
                 /\ calls'[i].ws.status = "running"]_vars

\* the loop-back rule cannot apply to the final state of activation i
NoApplicableLoopBack(i) ==
  \/ calls[i].loop_condition = None
  \/ ~ScoreBelowThreshold(calls[i].ws.state)
  \/ LoopBackNode \notin DOMAIN GraphOf(i).nodes

\* C19: a finished run whose capabilities all succeeded, whose last executed node has no
\* next node and no applicable loop-back, and that executed at most max_iterations nodes
\* without hitting the per-cycle cap, ends completed (also when it executed exactly
\* max_iterations nodes); and a run that ends completed executed last a node without
\* next node.
C19_CompletedIffTraversalExhausted ==
  \A i \in DOMAIN calls :
    Done(i) =>
      /\ (/\ LastNodeWithoutNext(i) /\ NoApplicableLoopBack(i)
          /\ "Loop iteration limit reached" \notin Kinds(i)
          /\ Cardinality(Successes(i)) <= max_iterations) => calls[i].ws.status = "completed"
      /\ calls[i].ws.status = "completed" => LastNodeWithoutNext(i)

\* the step is a register call (the outcome of the step is that of a new register call)
RegisterStep ==
  /\ outcome'.op = "register"
  /\ ~(outcome.op = "register" /\ outcome.arg = outcome'.arg)

\* C20: a register call whose capability is not callable or has no parameter fails and
\* leaves the capability map and the description map unchanged; a valid register call
\* sets the capability and the description of its name and leaves the other names
\* alone, so get(name) returns the capability of the last valid register; the registry
\* only ever holds valid capabilities, each with a description.
C20_RegisterValidatesThenOverwrites ==
  /\ [](/\ DOMAIN tools = DOMAIN tool_descriptions
        /\ \A n \in DOMAIN tools : callable(tools[n]) /\ Len(Parameters(tools[n])) > 0
        /\ outcome.op = "get" => outcome.returned = get(outcome.arg))
  /\ [][RegisterStep =>
          LET a == outcome'.arg IN
          IF ~callable(a.func) \/ Len(Parameters(a.func)) = 0
          THEN /\ outcome'.raised # None
               /\ tools' = tools /\ tool_descriptions' = tool_descriptions
          ELSE /\ outcome'.raised = None
               /\ a.name \in DOMAIN tools' /\ tools'[a.name] = a.func
               /\ DOMAIN tools' = DOMAIN tools \cup {a.name}
               /\ \A n \in DOMAIN tools \ {a.name} :
                    tools'[n] = tools[n] /\ tool_descriptions'[n] = tool_descriptions[n]
               /\ tool_descriptions'[a.name]
                    = IF a.description = None THEN "Tool: " \o a.name ELSE a.description]_vars

\* C20 witness: a register call has failed for a name whose earlier registration, made
\* by a valid register call, is still in place.
C20_Witness ==
  /\ outcome.op = "register" /\ outcome.raised # None
  /\ outcome.arg.name \in DOMAIN tools
  /\ tools[outcome.arg.name] = "f2" /\ tool_descriptions[outcome.arg.name] = "d1"

\* C21: get, exists and list_tools change neither registry mapping, and get returns
\* absent for a name that is not registered; execute of a name that is not registered
\* raises the unknown-capability error and changes neither the caller's state nor the
\* registry; unregister of a name that is not registered changes nothing, and after any
\* unregister the name is absent from get and from list_tools.
C21_LookupsAreReadOnly ==
  [][/\ outcome'.op \in {"get", "exists", "list_tools", "execute"} =>
          tools' = tools /\ tool_descriptions' = tool_descriptions
     /\ outcome'.op = "get" =>
          outcome'.returned = IF outcome'.arg \in DOMAIN tools THEN tools[outcome'.arg] ELSE None
     /\ outcome'.op = "exists" => (outcome'.returned <=> outcome'.arg \in DOMAIN tools)
     /\ outcome'.op = "list_tools" => outcome'.returned = tool_descriptions
     /\ (outcome'.op = "execute" /\ outcome'.arg.name \notin DOMAIN tools) =>
          /\ outcome'.raised = "not found in registry"
          /\ outcome'.arg.state_after = outcome'.arg.state
          /\ heap' = heap
     /\ outcome'.op = "unregister" =>
          /\ outcome'.arg \notin DOMAIN tools =>
               tools' = tools /\ tool_descriptions' = tool_descriptions
          /\ outcome'.arg \notin DOMAIN tools' /\ outcome'.arg \notin DOMAIN tool_descriptions'
          /\ \A n \in DOMAIN tools \ {outcome'.arg} :
               /\ n \in DOMAIN tools' /\ tools'[n] = tools[n]
               /\ tool_descriptions'[n] = tool_descriptions[n]]_vars

\* C21 witness: execute has failed for a name that an earlier unregister removed, while
\* another capability is still registered.
C21_Witness ==
  /\ outcome.op = "execute" /\ outcome.raised = "not found in registry"
  /\ outcome.arg.name = LoopBackNode
  /\ outcome.arg.name \notin DOMAIN tools /\ outcome.arg.name \notin DOMAIN list_tools
  /\ DOMAIN tools # {}

\* what a reader of the Run State of activation i sees: state, log and status
RunData(i) ==
  [state |-> Contents(calls[i].ws.state), log |-> LogContents(i), status |-> calls[i].ws.status]

\* the step starts a run under a run id that is already in the run store
ReusesRunId == Len(calls') > Len(calls) /\ calls'[Len(calls')].run_id \in DOMAIN runs

\* C22: a step of a run_workflow call changes only the Run State of its own run and adds
\* only its own entry to the run store: the graph store and every graph stay as they
\* are, every run id already in the run store keeps its Run State, and the state, log
\* and status of every other run read the same as before (runs whose id repeats an
\* earlier one are the subject of C28 and are left aside here).
C22_RunsAreIsolated ==
  [][(calls' # calls /\ ~ReusesRunId) =>
       /\ graphs' = graphs
       /\ \A rid \in DOMAIN runs : rid \in DOMAIN runs' /\ runs'[rid] = runs[rid]
       /\ \A i \in DOMAIN calls : calls'[i] = calls[i] => RunData(i)' = RunData(i)]_vars

\* C23: registry calls are serialized: whenever a lookup can run, a name is in the
\* capability mapping exactly when it is in the description mapping, and no unregister
\* call of any thread has ended in an error.
C23_RegistryAccessIsSerialized ==
  /\ DOMAIN tools = DOMAIN tool_descriptions
  /\ \A t \in Threads : threads[t].raised = None

\* C24: a get_run_state call changes neither the run store nor any Run State nor any
\* object a state holds; it returns the Run State stored under the run id, so a second
\* call for the same id right after the first returns the same state, log, status and
\* current node; for an id that no run was given it returns absent.
C24_GetRunStateIsReadOnly ==
  [][outcome'.op = "get_run_state" =>
       /\ runs' = runs /\ calls' = calls /\ heap' = heap /\ graphs' = graphs
       /\ IF outcome'.arg \in DOMAIN runs
          THEN /\ outcome'.returned = calls[runs[outcome'.arg]].ws
               /\ (outcome.op = "get_run_state" /\ outcome.arg = outcome'.arg) =>
                    outcome'.returned = outcome.returned
          ELSE outcome'.returned = None
       /\ (\A i \in DOMAIN calls : calls[i].run_id # outcome'.arg) => outcome'.arg \notin DOMAIN runs]_vars

\* C24 witness: a caller has read the first of two stored runs, which executed a node.
C24_Witness ==
  /\ outcome.op = "get_run_state"
  /\ outcome.arg \in DOMAIN runs /\ Cardinality(DOMAIN runs) = 2
  /\ runs[outcome.arg] = 1
  /\ outcome.returned.status = "completed" /\ Len(outcome.returned.execution_log) >= 1

\* the step is an iteration of activation i that executes its current node
ExecutesCurrentNode(i) ==
  /\ calls'[i].iteration_count = calls[i].iteration_count + 1
  /\ Len(Log(i)') > Len(Log(i))
  /\ Log(i)'[Len(Log(i)) + 1].message.kind \in {"executed successfully", "Error in node"}

\* the step is an iteration of activation i whose function node names a capability that
\* is not in the registry at this moment
ExecutesUnregistered(i) ==
  /\ GraphOf(i).nodes[calls[i].current_node_name].node_type = "function"
  /\ GraphOf(i).nodes[calls[i].current_node_name].function \notin DOMAIN tools

\* C25: create_graph of a well-formed graph succeeds whatever is registered; a function
\* node is resolved against the registry as it is when the node executes: the step logs
\* the failure entry "Function not found" for the node and sets failed exactly when the
\* name is not registered at that moment; and a run with such an entry ends failed.
C25_CapabilitiesAreBoundLate ==
  /\ []((outcome.op = "create_graph" /\ validate(outcome.arg) = "ok") => outcome.raised = None)
  /\ [][\A i \in DOMAIN calls : ExecutesCurrentNode(i) =>
          IF ExecutesUnregistered(i)
          THEN /\ Log(i)'[Len(Log(i)) + 1].message = ErrorMsg(calls[i].current_node_name, "Function not found")
               /\ Log(i)'[Len(Log(i)) + 1].node = calls[i].current_node_name
               /\ calls'[i].ws.status = "failed"
          ELSE Log(i)'[Len(Log(i)) + 1].message.text # "Function not found"]_vars
  /\ [](\A i \in DOMAIN calls :
         (Done(i) /\ \E k \in DOMAIN Log(i) : Log(i)[k].message.text = "Function not found") =>
           /\ calls[i].ws.status = "failed"
           /\ Log(i)[Len(Log(i))].message.kind = "Error in node")

\* the step is an iteration of the traversal loop of activation i
IsIteration(i) == calls'[i].iteration_count = calls[i].iteration_count + 1

\* the value the top of the loop gives the per-cycle counter in this iteration
CounterAtLoopTop(i) ==
  IF calls[i].current_node_name \in calls[i].visited_nodes
  THEN calls[i].loop_iteration_count + 1 ELSE 0

\* the iteration ran into the loop-back rule: its node succeeded, has no next node, and
\* the run goes on at check_complexity or was stopped without the stop at the loop top
LoopBackTaken(i) ==
  /\ CounterAtLoopTop(i) <= max_loop_iterations
  /\ Len(Log(i)') = Len(Log(i)) + 1
  /\ Log(i)'[Len(Log(i)')].message.kind = "executed successfully"
  /\ get_next_node(GraphOf(i), calls[i].current_node_name, calls'[i].ws.state) = None
  /\ \/ calls'[i].pc = "loop" /\ calls'[i].current_node_name = LoopBackNode
     \/ calls'[i].ws.status = "stopped"

\* C26 as stated: in each iteration the per-cycle counter becomes its value plus one
\* when the node about to execute was already executed in this run and zero otherwise,
\* and a finished run is stopped exactly when the counter exceeds max_loop_iterations.
C26_CounterCountsRevisits ==
  /\ [][\A i \in DOMAIN calls : IsIteration(i) =>
          calls'[i].loop_iteration_count = CounterAtLoopTop(i)]_vars
  /\ [](\A i \in DOMAIN calls : Done(i) =>
          (calls[i].ws.status = "stopped" <=> calls[i].loop_iteration_count > max_loop_iterations))

\* C26 amended: in each iteration the per-cycle counter becomes its value plus one when
\* the node about to execute was already executed in this run and zero otherwise, and
\* one more when the loop-back rule is taken; the iteration stops the run exactly when
\* the counter then exceeds max_loop_iterations; a finished run is stopped exactly when
\* the counter exceeds max_loop_iterations, or iteration_count reached max_iterations
\* and the run did not end in a workflow-level failure (a raising loop predicate).
C26_CounterCountsRevisitsAndRedirects ==
  /\ [][\A i \in DOMAIN calls : IsIteration(i) =>
          /\ calls'[i].loop_iteration_count =
               CounterAtLoopTop(i) + (IF LoopBackTaken(i) THEN 1 ELSE 0)
          /\ calls'[i].ws.status = "stopped" <=>
               calls'[i].loop_iteration_count > max_loop_iterations]_vars
  /\ [](\A i \in DOMAIN calls : Done(i) =>
          (calls[i].ws.status = "stopped" <=>
             \/ calls[i].loop_iteration_count > max_loop_iterations
             \/ /\ calls[i].iteration_count >= max_iterations
                /\ "Workflow execution failed" \notin Kinds(i)))

\* C26 witness: a finished run was stopped by the counter at a redirect: the counter
\* exceeds the cap, no stop entry was logged and the global cap was not reached.
C26_Witness ==
  \E i \in DOMAIN calls :
    /\ Done(i) /\ calls[i].ws.status = "stopped"
    /\ calls[i].loop_iteration_count > max_loop_iterations
    /\ calls[i].iteration_count < max_iterations
    /\ "Loop iteration limit reached" \notin Kinds(i)

\* the log entries of activation i that record a node step, successful or failed
NodeSteps(i) ==
  {k \in DOMAIN Log(i) : Log(i)[k].message.kind \in {"executed successfully", "Error in node"}}

\* C27: every run terminates: a run never executes more than max_iterations node steps,
\* every run_workflow call that has started eventually returns, and a call that has
\* returned left its run with a status other than running.
C27_EveryRunTerminates ==
  /\ [](\A i \in DOMAIN calls :
         /\ calls[i].iteration_count <= max_iterations
         /\ Cardinality(NodeSteps(i)) <= max_iterations
         /\ Done(i) => calls[i].ws.status \in Terminal)
  /\ \A i \in 1..Cardinality(RunIds) : (Len(calls) >= i) ~> (Len(calls) >= i /\ Done(i))

\* C27 witness: a run over a cycle has returned after max_iterations node steps.
C27_Witness ==
  \E i \in DOMAIN calls :
    /\ Done(i) /\ calls[i].ws.status \in Terminal
    /\ Cardinality(NodeSteps(i)) = max_iterations /\ max_iterations >= 3
    /\ calls[i].current_node_name \in calls[i].visited_nodes

\* C28: every run has a run id of its own and stays retrievable: no two run_workflow
\* calls were given the same run id, and the run store maps the id of every run that
\* was started to the Run State of that run.
C28_RunIdsAreUnique ==
  /\ \A i, j \in DOMAIN calls : i # j => calls[i].run_id # calls[j].run_id
  /\ \A i \in DOMAIN calls : calls[i].run_id \in DOMAIN runs /\ runs[calls[i].run_id] = i

\* the step is an iteration of activation i that executes a node whose kind is not function
ExecutesPassthrough(i) ==
  /\ IsIteration(i)
  /\ CounterAtLoopTop(i) <= max_loop_iterations
  /\ GraphOf(i).nodes[calls[i].current_node_name].node_type # "function"

\* C29: executing a node whose kind is not function changes neither the state of the
\* run nor any object the state holds, whatever is registered under its name; the step
\* is logged as a success of the node with the state as snapshot, the run does not fail
\* for the node, and when the node has a declared successor the run goes on there.
C29_PassthroughIsNoOp ==
  [][\A i \in DOMAIN calls : ExecutesPassthrough(i) =>
       /\ calls'[i].ws.state = calls[i].ws.state
       /\ heap' = heap
       /\ Len(Log(i)') > Len(Log(i))
       /\ Log(i)'[Len(Log(i)) + 1] =
            ExecutionLogEntry(calls[i].current_node_name, calls[i].ws.state,
                              SuccessMsg(calls[i].current_node_name))
       /\ \/ calls'[i].ws.status # "failed"
          \/ Log(i)'[Len(Log(i)')].message = WorkflowFailedMsg("loop_condition raised")
       /\ (/\ calls'[i].ws.status = "running"
           /\ get_next_node(GraphOf(i), calls[i].current_node_name, calls[i].ws.state) # None) =>
            /\ calls'[i].pc = "loop"
            /\ calls'[i].current_node_name =
                 get_next_node(GraphOf(i), calls[i].current_node_name, calls[i].ws.state)]_vars

\* C29 witness: a run executed the passthrough node "a" and then a second node while no
\* capability was registered under "a".
C29_Witness ==
  \E i \in DOMAIN calls :
    /\ Done(i) /\ "a" \notin DOMAIN tools
    /\ Len(Log(i)) >= 2
    /\ Log(i)[1].node = "a" /\ Log(i)[1].message = SuccessMsg("a")
    /\ GraphOf(i).nodes["a"].node_type = "passthrough"
    /\ Log(i)[2].node = LoopBackNode /\ Log(i)[2].message = SuccessMsg(LoopBackNode)

\* C30: the node steps of a run are the first entries of its log, one per executed
\* node; the first is the entry node of the graph; each next one is the declared
\* successor of the one before, or check_complexity when the one before has no declared
\* edge; the current node of the Run State is the node executed last; and a finished
\* run has at least one log entry and a current node that is in the graph.
C30_ExecutedNodesAreTraversal ==
  [](\A i \in DOMAIN calls :
       LET n == Cardinality(NodeSteps(i)) IN
       /\ NodeSteps(i) = 1..n
       /\ n \in {calls[i].iteration_count, calls[i].iteration_count - 1}
       /\ n >= 1 => /\ Log(i)[1].node = GraphOf(i).entry_node
                    /\ calls[i].ws.current_node = Log(i)[n].node
       /\ \A k \in 1..(n - 1) :
            IF Log(i)[k].node \in DOMAIN GraphOf(i).edges
            THEN Log(i)[k + 1].node = GraphOf(i).edges[Log(i)[k].node]
            ELSE Log(i)[k + 1].node = LoopBackNode
       /\ \A k \in 1..n : Log(i)[k].node \in DOMAIN GraphOf(i).nodes
       /\ Done(i) => n >= 1 /\ calls[i].ws.current_node \in DOMAIN GraphOf(i).nodes)

\* C30 witness: a finished run executed its entry node "a", which has no declared edge,
\* and then check_complexity.
C30_Witness ==
  \E i \in DOMAIN calls :
    /\ Done(i) /\ Cardinality(NodeSteps(i)) >= 2
    /\ GraphOf(i).entry_node = "a" /\ "a" \notin DOMAIN GraphOf(i).edges
    /\ Log(i)[1].node = "a" /\ Log(i)[2].node = LoopBackNode

\* the nodes reached from the nodes S by following declared edges, k edges at most
RECURSIVE FollowEdges(_, _, _)
FollowEdges(g, S, k) ==
  IF k = 0 THEN S
  ELSE FollowEdges(g, S \cup {g.edges[n] : n \in S \cap DOMAIN g.edges}, k - 1)

\* the nodes the declared edges lead to from the entry node
ReachedFromEntry(g) == FollowEdges(g, {g.entry_node}, Cardinality(DOMAIN g.nodes))

\* following the declared edges from the entry node never comes to an end: every node
\* on the way has a declared edge
EntersCycle(g) == ReachedFromEntry(g) \subseteq DOMAIN g.edges

\* C31: a finished run of a graph whose declared edges lead from the entry node into a
\* cycle never has status completed, whatever the state and the loop predicate: it is
\* stopped or failed.
C31_CycleNeverCompletes ==
  [](\A i \in DOMAIN calls :
       (Done(i) /\ EntersCycle(GraphOf(i))) => calls[i].ws.status \in {"stopped", "failed"})

\* the node executed by the k-th node step of activation i was executed before that step
IsReExecution(i, k) == \E j \in 1..(k - 1) : Log(i)[j].node = Log(i)[k].node

\* activation i has executed some node a second time
HasReExecuted(i) == \E k \in NodeSteps(i) : IsReExecution(i, k)

\* C32 as stated: every node step after the first re-execution of a node is a
\* re-execution too; the per-cycle counter, once above zero, never goes back; and a run
\* has at most (number of nodes of the graph) + max_loop_iterations node steps.
C32_NoNewNodeAfterRevisit ==
  /\ [](\A i \in DOMAIN calls : \A k \in NodeSteps(i), l \in NodeSteps(i) :
          (k < l /\ IsReExecution(i, k)) => IsReExecution(i, l))
  /\ [][\A i \in DOMAIN calls : calls[i].loop_iteration_count > 0 =>
          calls'[i].loop_iteration_count >= calls[i].loop_iteration_count]_vars
  /\ [](\A i \in DOMAIN calls :
          Cardinality(NodeSteps(i)) <= Cardinality(DOMAIN GraphOf(i).nodes) + max_loop_iterations)

\* C32 amended: every node step after the first re-execution of a node is a re-execution
\* too; from the first re-execution on the per-cycle counter never goes back, and before
\* it the counter goes back to zero only when the node about to execute was not executed
\* yet; and a run has at most (number of nodes) + max_loop_iterations node steps.
C32_NoNewNodeAfterReExecution ==
  /\ [](\A i \in DOMAIN calls : \A k \in NodeSteps(i), l \in NodeSteps(i) :
          (k < l /\ IsReExecution(i, k)) => IsReExecution(i, l))
  /\ [][\A i \in DOMAIN calls :
          /\ HasReExecuted(i) =>
               calls'[i].loop_iteration_count >= calls[i].loop_iteration_count
          /\ calls'[i].loop_iteration_count < calls[i].loop_iteration_count =>
               /\ calls'[i].loop_iteration_count = 0
               /\ calls[i].current_node_name \notin calls[i].visited_nodes]_vars
  /\ [](\A i \in DOMAIN calls :
          Cardinality(NodeSteps(i)) <= Cardinality(DOMAIN GraphOf(i).nodes) + max_loop_iterations)

\* C32 witness: a finished run was redirected to check_complexity before that node had
\* been executed, re-executed its entry node afterwards, and executed as many node steps
\* as the graph has nodes plus max_loop_iterations.
C32_Witness ==
  \E i \in DOMAIN calls :
    /\ Done(i) /\ HasReExecuted(i) /\ max_loop_iterations >= 1
    /\ GraphOf(i).entry_node \notin DOMAIN GraphOf(i).edges
    /\ Log(i)[2].node = LoopBackNode /\ Log(i)[3].node = GraphOf(i).entry_node
    /\ Cardinality(NodeSteps(i)) = Cardinality(DOMAIN GraphOf(i).nodes) + max_loop_iterations

====
